---- MODULE Spec2Model ----
(***************************************************************************)
(* Bus::bulk_write of src/instructions/bulk_write.rs as a state machine.   *)
(*                                                                         *)
(* One call of bulk_write is followed from its entry to its return: the    *)
(* size pass over writes.clone() (lines 60-72), the call of                *)
(* write_instruction (line 74), the fill closure's loop over writes (lines *)
(* 75-85) and the return of write_instruction's result (lines 74-86).      *)
(* A panic is an outcome of the call, recorded in result.                  *)
(***************************************************************************)
EXTENDS Integers, Sequences, FiniteSets

\* ---------------------------------------------------------------- bounds

\* The longest descriptor sequence the inputs hold.
MaxWrites == 2

\* ------------------------------------------------------------- constants

\* u16::MAX, the largest data length bulk_write accepts.
U16Max == 65535

\* ---------------------------------------------------------------- inputs

MotorIds == {1, 2, 5}

Addresses == {10, 102, 116}

SmallPayloads == {<<>>, <<44, 1>>, <<208, 7, 0, 0>>}

\* A payload of n bytes whose content varies with the position.
LongPayload(n) == [k \in 1..n |-> k % 251]

\* Payloads at the edge of the u16 range: the longest accepted one and the
\* shortest refused one.
EdgePayloads == {<<44, 1>>, LongPayload(U16Max), LongPayload(U16Max + 1)}

BulkWriteData(ids, addresses, payloads) ==
    [motor_id : ids, address : addresses, data : payloads]

RECURSIVE SeqsUpTo(_, _)
SeqsUpTo(S, n) ==
    IF n = 0 THEN {<<>>}
    ELSE LET shorter == SeqsUpTo(S, n - 1)
         IN  shorter \cup {Append(s, x) : s \in {t \in shorter : Len(t) = n - 1}, x \in S}

\* The descriptor sequences a call is followed on: every sequence of short
\* writes, and every sequence of writes at the edge of the length range
\* (with a register address whose high byte is not zero).
Inputs ==
    SeqsUpTo(BulkWriteData(MotorIds, Addresses, SmallPayloads), MaxWrites)
    \cup SeqsUpTo(BulkWriteData({1, 2}, {4660}, EdgePayloads), MaxWrites)

\* The errors write_instruction can return.
TransportErrors == {"io", "buffer_too_small"}

\* ----------------------------------------------------------------- state

VARIABLES
    writes,           \* the argument: a sequence of BulkWriteData
    pc,               \* "size" (lines 59-72), "fill" (lines 75-85), "done"
    cloneIt,          \* items the iterator writes.clone() has yielded (line 60)
    writesIt,         \* items the iterator writes has yielded (line 76)
    parameter_count,  \* line 59
    offset,           \* line 75
    buffer,           \* the parameter buffer write_instruction hands to the closure
    written,          \* the byte ranges <<from, to>> (to excluded) written to buffer, in order
    invocations,      \* the calls of write_instruction made so far
    transportRet,     \* what write_instruction returned
    result            \* the outcome of bulk_write

vars == <<writes, pc, cloneIt, writesIt, parameter_count, offset, buffer,
          written, invocations, transportRet, result>>

None == [kind |-> "none"]
Ok == [kind |-> "Ok"]
Err(e) == [kind |-> "Err", error |-> e]
\* panic!("bulk_write: data length ({}) for motor {} exceeds maximum size of {}")
PanicTooLarge(length, motor_id) ==
    [kind |-> "panic", what |-> "data length exceeds maximum size",
     length |-> length, motor_id |-> motor_id]
\* A slice index out of range of the buffer.
PanicIndex == [kind |-> "panic", what |-> "index out of range"]

\* A byte of the buffer the closure has not written.
Stale == -1

\* The buffer of n parameter bytes write_instruction hands to the closure.
AllocateBuffer(n) == [k \in 1..n |-> Stale]

\* What write_instruction can return once the closure has run.
TransportReturns == {Ok} \cup {Err(e) : e \in TransportErrors}

\* --------------------------------------------------------------- helpers

\* buf with bytes written from 0-based index at on.
WriteAt(buf, at, bytes) ==
    SubSeq(buf, 1, at) \o bytes \o SubSeq(buf, at + Len(bytes) + 1, Len(buf))

write_u8_le(buf, at, value) == WriteAt(buf, at, <<value>>)

write_u16_le(buf, at, value) == WriteAt(buf, at, <<value % 256, value \div 256>>)

copy_from_slice(buf, at, data) == WriteAt(buf, at, SubSeq(data, 1, Len(data)))

TooLargeOffByOne(data) == Len(data) >= U16Max
\* data.len() > u16::MAX.into()
TooLarge(data) == Len(data) > U16Max

EntrySizeShort(data) == 4 + Len(data)
\* 5 + data.len(), what the size pass adds for one write
EntrySize(data) == 5 + Len(data)

NextOffsetShort(off, data) == off + 4 + Len(data)
\* offset += 5 + data.len()
NextOffset(off, data) == off + 5 + Len(data)

LenAsU8(data) == Len(data) % 256
\* data.len() as u16
LenAsU16(data) == Len(data) % (U16Max + 1)

\* Whether the slices of one iteration of the fill loop lie in the buffer.
InBounds(buf, off, write) == off + 5 + Len(write.data) <= Len(buf)

FillEntrySwapped(buf, off, write) ==
    LET b1 == write_u8_le(buf, off, write.motor_id)
        b2 == write_u16_le(b1, off + 1, LenAsU16(write.data))
        b3 == write_u16_le(b2, off + 3, write.address)
    IN  copy_from_slice(b3, off + 5, write.data)
\* The buffer after one iteration of the fill loop wrote write at off.
FillEntry(buf, off, write) ==
    LET b1 == write_u8_le(buf, off, write.motor_id)
        b2 == write_u16_le(b1, off + 1, write.address)
        b3 == write_u16_le(b2, off + 3, LenAsU16(write.data))
    IN  copy_from_slice(b3, off + 5, write.data)

\* The byte ranges one iteration of the fill loop writes, in order.
FillRanges(off, write) ==
    << <<off, off + 1>>, <<off + 1, off + 3>>, <<off + 3, off + 5>>,
       <<off + 5, off + 5 + Len(write.data)>> >>

InstructionSyncWrite == "SYNC_WRITE"
\* instruction_id::BULK_WRITE
Instruction == "BULK_WRITE"

\* packet_id::BROADCAST
Target == "BROADCAST"

ReturnValueSwallowed(ret) == Ok
\* The call of write_instruction is the tail expression of bulk_write.
ReturnValue(ret) == ret

\* ------------------------------------------------------------------ Init

Init ==
    /\ writes \in Inputs
    /\ pc = "size"
    /\ cloneIt = 0
    /\ writesIt = 0
    /\ parameter_count = 0
    /\ offset = 0
    /\ buffer = <<>>
    /\ written = <<>>
    /\ invocations = <<>>
    /\ transportRet = None
    /\ result = None

\* --------------------------------------------------------------- actions

\* One iteration of the size pass.
SizePass ==
    /\ pc = "size"
    /\ cloneIt < Len(writes)
    /\ LET write == writes[cloneIt + 1]
       IN  \/ /\ TooLarge(write.data)
              /\ result' = PanicTooLarge(Len(write.data), write.motor_id)
              /\ pc' = "done"
              /\ UNCHANGED <<cloneIt, parameter_count>>
           \/ /\ ~TooLarge(write.data)
              /\ parameter_count' = parameter_count + EntrySize(write.data)
              /\ cloneIt' = cloneIt + 1
              /\ UNCHANGED <<pc, result>>
    /\ UNCHANGED <<writes, writesIt, offset, buffer, written, invocations, transportRet>>

WriteInstructionSkipEmpty ==
    /\ pc = "size"
    /\ cloneIt = Len(writes)
    /\ IF writes = <<>>
       THEN /\ result' = Ok
            /\ pc' = "done"
            /\ UNCHANGED <<invocations, transportRet, buffer, offset>>
       ELSE /\ invocations' = Append(invocations,
                [target |-> Target, instruction |-> Instruction,
                 parameter_count |-> parameter_count])
            /\ buffer' = AllocateBuffer(parameter_count)
            /\ offset' = 0
            /\ pc' = "fill"
            /\ UNCHANGED <<transportRet, result>>
    /\ UNCHANGED <<writes, cloneIt, writesIt, parameter_count, written>>
\* The size pass is over: write_instruction is called. It either fails
\* before it runs the closure, or hands the closure a buffer of
\* parameter_count bytes.
WriteInstruction ==
    /\ pc = "size"
    /\ cloneIt = Len(writes)
    /\ invocations' = Append(invocations,
            [target |-> Target, instruction |-> Instruction,
             parameter_count |-> parameter_count])
    /\ \/ \E e \in TransportErrors :
              /\ transportRet' = Err(e)
              /\ result' = ReturnValue(Err(e))
              /\ pc' = "done"
              /\ UNCHANGED <<buffer, offset>>
       \/ /\ buffer' = AllocateBuffer(parameter_count)
          /\ offset' = 0
          /\ pc' = "fill"
          /\ UNCHANGED <<transportRet, result>>
    /\ UNCHANGED <<writes, cloneIt, writesIt, parameter_count, written>>

\* One iteration of the closure's loop.
FillPass ==
    /\ pc = "fill"
    /\ writesIt < Len(writes)
    /\ LET write == writes[writesIt + 1]
       IN  IF InBounds(buffer, offset, write)
           THEN /\ buffer' = FillEntry(buffer, offset, write)
                /\ written' = written \o FillRanges(offset, write)
                /\ offset' = NextOffset(offset, write.data)
                /\ writesIt' = writesIt + 1
                /\ UNCHANGED <<pc, result>>
           ELSE /\ result' = PanicIndex
                /\ pc' = "done"
                /\ UNCHANGED <<buffer, written, offset, writesIt>>
    /\ UNCHANGED <<writes, cloneIt, parameter_count, invocations, transportRet>>

\* The closure returns; write_instruction sends the packet and returns, and
\* bulk_write returns what it returned.
Return ==
    /\ pc = "fill"
    /\ writesIt = Len(writes)
    /\ \E ret \in TransportReturns :
          /\ transportRet' = ret
          /\ result' = ReturnValue(ret)
    /\ pc' = "done"
    /\ UNCHANGED <<writes, cloneIt, writesIt, parameter_count, offset, buffer,
                   written, invocations>>

Next == SizePass \/ WriteInstruction \/ FillPass \/ Return

Spec == Init /\ [][Next]_vars


\* ------------------------------------------------- what the claims speak of

\* Two descriptors carry the same device id.
HasDuplicateId(ws) ==
    \E a, b \in 1..Len(ws) : a # b /\ ws[a].motor_id = ws[b].motor_id

\* A descriptor's payload is longer than a 16-bit length field can say.
HasOversized(ws) == \E i \in 1..Len(ws) : Len(ws[i].data) > 65535

FirstOversized(ws) ==
    CHOOSE i \in 1..Len(ws) :
        /\ Len(ws[i].data) > 65535
        /\ \A j \in 1..(i - 1) : Len(ws[j].data) <= 65535

Valid(ws) == ~HasDuplicateId(ws) /\ ~HasOversized(ws)

\* The sum of 5 + payload length over the first n descriptors.
RECURSIVE SumTo(_, _)
SumTo(ws, n) == IF n = 0 THEN 0 ELSE SumTo(ws, n - 1) + 5 + Len(ws[n].data)

\* The closure has run to its end on the buffer of a call of write_instruction.
FillFinished ==
    /\ pc \in {"fill", "done"}
    /\ invocations # <<>>
    /\ writesIt = Len(writes)
    /\ Len(buffer) = parameter_count

\* A parameter block read entry by entry from 0-based position pos: the id,
\* the address and the length (16 bits, low byte first), then length bytes.
RECURSIVE Decode(_, _)
Decode(block, pos) ==
    IF pos >= Len(block) THEN <<>>
    ELSE IF pos + 5 > Len(block) THEN << [truncated |-> "header"] >>
    ELSE LET length == block[pos + 4] + 256 * block[pos + 5]
         IN  IF length < 0 \/ pos + 5 + length > Len(block)
             THEN << [truncated |-> "payload"] >>
             ELSE << [motor_id |-> block[pos + 1],
                      address |-> block[pos + 2] + 256 * block[pos + 3],
                      data |-> SubSeq(block, pos + 6, pos + 5 + length)] >>
                  \o Decode(block, pos + 5 + length)

\* The descriptors with their payloads as plain sequences.
Descriptors(ws) ==
    [i \in 1..Len(ws) |->
        [motor_id |-> ws[i].motor_id, address |-> ws[i].address,
         data |-> SubSeq(ws[i].data, 1, Len(ws[i].data))]]

\* The log's ranges follow one another from 0 to end: each byte below end
\* lies in exactly one of them.
Tiles(log, end) ==
    /\ log = <<>> => end = 0
    /\ log # <<>> => log[1][1] = 0 /\ log[Len(log)][2] = end
    /\ \A k \in 1..Len(log) : log[k][1] <= log[k][2]
    /\ \A k \in 1..(Len(log) - 1) : log[k][2] = log[k + 1][1]

Example1 ==
    << [motor_id |-> 1, address |-> 116, data |-> <<208, 7, 0, 0>>],
       [motor_id |-> 2, address |-> 102, data |-> <<44, 1>>] >>

Block1 == <<1, 116, 0, 4, 0, 208, 7, 0, 0, 2, 102, 0, 2, 0, 44, 1>>

Example2 == << [motor_id |-> 5, address |-> 10, data |-> <<>>] >>

Block2 == <<5, 10, 0, 0, 0>>

\* ---------------------------------------------------------------- claims

\* C1: a descriptor sequence in which two descriptors carry the same device
\* id makes the call fail with the duplicate-id error, and write_instruction
\* is never invoked for it (no buffer is handed out, no byte is written).
\* (A sequence that also holds an oversized payload is left aside: the claim
\* does not say which of the two failures it ends with.)
C1_DuplicateRejected ==
    (HasDuplicateId(writes) /\ ~HasOversized(writes)) =>
        /\ invocations = <<>>
        /\ buffer = <<>>
        /\ written = <<>>
        /\ pc = "done" => result.kind = "DuplicateDeviceId"

\* C2: when a descriptor's payload is longer than 65535 bytes, wherever it
\* stands, the call fails with the oversized-payload failure, which carries
\* the device id and the length of the first such descriptor; when no payload
\* is longer than 65535 bytes (65535 included) the call does not fail so.
C2_OversizedRejected ==
    pc = "done" =>
        IF HasOversized(writes)
        THEN LET w == writes[FirstOversized(writes)]
             IN  result = [kind |-> "panic", what |-> "data length exceeds maximum size",
                           length |-> Len(w.data), motor_id |-> w.motor_id]
        ELSE result.kind # "panic"

\* C2's witness: a payload of exactly 65535 bytes was accepted and the
\* payload after it, of another device, was refused with that device's id.
C2_Witness ==
    /\ pc = "done"
    /\ Len(writes) = 2
    /\ Len(writes[1].data) = 65535
    /\ Len(writes[2].data) = 65536
    /\ writes[1].motor_id # writes[2].motor_id
    /\ cloneIt = 1
    /\ result = PanicTooLarge(65536, writes[2].motor_id)

\* C3: with pairwise distinct device ids and every payload at most 65535
\* bytes long, the parameter length asked of write_instruction is the sum of
\* 5 + payload length over all descriptors, the buffer keeps that length,
\* and the call succeeds when write_instruction does.
C3_ExactParameterLength ==
    Valid(writes) =>
        /\ \A k \in 1..Len(invocations) :
               invocations[k].parameter_count = SumTo(writes, Len(writes))
        /\ pc = "fill" => Len(buffer) = SumTo(writes, Len(writes))
        /\ buffer # <<>> => Len(buffer) = SumTo(writes, Len(writes))
        /\ pc = "done" =>
               /\ invocations # <<>>
               /\ result.kind # "panic"
               /\ transportRet = Ok => result = Ok

C3_Witness ==
    /\ Valid(writes)
    /\ Len(writes) = 2
    /\ Len(writes[1].data) = 4
    /\ Len(writes[2].data) = 2
    /\ pc = "done"
    /\ result = Ok
    /\ invocations[1].parameter_count = 16
    /\ Len(buffer) = 16

\* C4: for a valid descriptor sequence, reading the filled block entry by
\* entry gives back the descriptors: the same number of entries, in the same
\* order, each with its device id, register address and payload.
C4_RoundTrip ==
    (Valid(writes) /\ FillFinished) => Decode(buffer, 0) = Descriptors(writes)

\* C4's witness: a block of two entries, the first with the longest payload
\* a length field can say, was filled.
C4_Witness ==
    /\ Valid(writes)
    /\ FillFinished
    /\ pc = "done"
    /\ result = Ok
    /\ Len(writes) = 2
    /\ Len(writes[1].data) = 65535
    /\ writes[1].motor_id = 2
    /\ writes[2].motor_id = 1

\* C5: in the filled block the entry of descriptor i starts at the sum of
\* 5 + payload length over the descriptors before it and is the device id,
\* the address low byte then high byte, the length low byte then high byte,
\* and the payload bytes; the two example inputs give the two example blocks.
C5_EntryLayout ==
    FillFinished =>
        /\ \A i \in 1..Len(writes) :
               LET o == SumTo(writes, i - 1)
                   w == writes[i]
                   n == Len(w.data)
               IN  /\ o + 5 + n <= Len(buffer)
                   /\ SubSeq(buffer, o + 1, o + 5)
                        = <<w.motor_id, w.address % 256, w.address \div 256,
                            n % 256, n \div 256>>
                   /\ SubSeq(buffer, o + 6, o + 5 + n) = SubSeq(w.data, 1, n)
        /\ writes = Example1 => buffer = Block1
        /\ writes = Example2 => buffer = Block2

C5_Witness ==
    /\ writes = Example1
    /\ pc = "done"
    /\ result = Ok
    /\ buffer = Block1

\* C6: write_instruction is called only after the size pass has examined
\* every descriptor, and when a descriptor is oversized or a device id is
\* repeated it is never called and no byte of a buffer is written.
C6_PreflightValidation ==
    /\ invocations # <<>> => cloneIt = Len(writes)
    /\ (HasOversized(writes) \/ HasDuplicateId(writes)) =>
           /\ invocations = <<>>
           /\ buffer = <<>>
           /\ written = <<>>

\* C7: on the empty descriptor sequence write_instruction is still called,
\* with parameter length 0, the fill writes no byte, and the call succeeds
\* when write_instruction does.
C7_EmptyInput ==
    writes = <<>> =>
        /\ buffer = <<>>
        /\ written = <<>>
        /\ pc # "size" =>
               invocations = << [target |-> "BROADCAST", instruction |-> "BULK_WRITE",
                                 parameter_count |-> 0] >>
        /\ pc = "done" =>
               /\ result.kind # "panic"
               /\ transportRet = Ok => result = Ok

C7_Witness ==
    /\ writes = <<>>
    /\ pc = "done"
    /\ Len(invocations) = 1
    /\ invocations[1].parameter_count = 0
    /\ result = Ok

\* C8: a call that passes the size pass calls write_instruction exactly
\* once, with the broadcast address as target and BULK_WRITE as instruction,
\* whatever the device ids of the descriptors.
C8_BroadcastOnce ==
    /\ Len(invocations) <= 1
    /\ \A k \in 1..Len(invocations) :
           /\ invocations[k].target = "BROADCAST"
           /\ invocations[k].instruction = "BULK_WRITE"
    /\ (~HasOversized(writes) /\ pc \in {"fill", "done"}) => Len(invocations) = 1

C8_Witness ==
    /\ pc = "done"
    /\ Len(writes) = 2
    /\ writes[1].motor_id = 1
    /\ writes[2].motor_id = 2
    /\ Len(invocations) = 1
    /\ invocations[1].target = "BROADCAST"
    /\ invocations[1].instruction = "BULK_WRITE"

\* C9: what write_instruction returns, a failure or success, is what the
\* call returns, and write_instruction is not called again after a failure.
C9_TransportPassThrough ==
    /\ (pc = "done" /\ invocations # <<>>) => result = transportRet
    /\ transportRet # None => (pc = "done" /\ Len(invocations) = 1)

\* C9's witness: write_instruction failed after the block was filled, and
\* the call returned that failure after a single invocation.
C9_Witness ==
    /\ pc = "done"
    /\ writes # <<>>
    /\ writesIt = Len(writes)
    /\ transportRet = Err("io")
    /\ result = Err("io")
    /\ Len(invocations) = 1

\* C10: in the fill pass over a buffer of the sum of 5 + payload length
\* bytes, the offset before entry i is that sum over the entries before it,
\* every write stays inside the buffer, the written ranges follow one
\* another without gap or overlap from 0 to the offset, and after the last
\* entry the offset is the buffer's length.
C10_FillCoverage ==
    /\ offset = SumTo(writes, writesIt)
    /\ Len(written) = 4 * writesIt
    /\ Tiles(written, offset)
    /\ result # PanicIndex
    /\ pc = "fill" =>
           /\ Len(buffer) = SumTo(writes, Len(writes))
           /\ offset <= Len(buffer)
           /\ writesIt < Len(writes) =>
                  offset + 5 + Len(writes[writesIt + 1].data) <= Len(buffer)
           /\ writesIt = Len(writes) => offset = Len(buffer)

C10_Witness ==
    /\ pc = "fill"
    /\ Len(writes) = 2
    /\ writesIt = 2
    /\ Len(writes[1].data) = 4
    /\ offset = 16
    /\ Len(buffer) = 16
    /\ Len(written) = 8

====
